---- MODULE Spec2Model ----
(***************************************************************************)
(* Model of pmb/chroot/apk.py (pmbootstrap): the repository list          *)
(* synchronizer, the apk version gate, the install necessity evaluator,   *)
(* the local path resolver and the install planner/executor.              *)
(*                                                                         *)
(* Text is modelled as sequences of fragments: a package token "!b" is    *)
(* <<"!", "b">>, "-x" is <<"-", "x">>, a file is a sequence of characters *)
(* in which NL is the newline character.                                   *)
(***************************************************************************)
EXTENDS Integers, Sequences, FiniteSets, TLC

VARIABLES
    \* ---- session state (pmb.helpers.other.cache) and configuration (args)
    apk_repository_list_updated,  \* cache["apk_repository_list_updated"]
    apk_min_version_checked,      \* cache["apk_min_version_checked"]
    args,                         \* [action, build_pkgs_on_install, offline]
    \* ---- chroot file system
    repositories,                 \* suffix -> /etc/apk/repositories file
    urls,                         \* pmb.helpers.repo.urls(args)
    sbin_apk,                     \* suffix -> does chroot_<suffix>/sbin/apk exist
    \* ---- record of update_repository_list calls
    sync_last,                    \* the last call
    sync_prev,                    \* suffix and result of the call before it
    \* ---- one install() call
    pc,                           \* "idle", "filter", "done"
    req,                          \* [packages, suffix, build]: the arguments
    gate,                         \* what check_min_version did in this call
    packages_with_depends,        \* line 201
    packages_installed,           \* line 204
    pos,                          \* position of the loop of line 207
    depth,                        \* recursion depth of install_is_necessary
    nec,                          \* outcome of the last install_is_necessary frame
    packages_toadd,               \* line 205
    packages_todel,               \* line 206
    builds,                       \* calls of pmb.build.package, in order
    commands,                     \* lines 242-249
    apk_log,                      \* package-manager commands run, in order
    result,                       \* how the call ended
    \* ---- record of a replace_aports_packages_with_path call made on its own
    resolved                      \* its arguments, collaborator answers, outcome

sessionVars == <<apk_min_version_checked, args, sbin_apk>>

repoVars == <<apk_repository_list_updated, repositories, urls, sync_last, sync_prev>>

installVars == <<pc, req, gate, packages_with_depends, packages_installed, pos, depth,
                 nec, packages_toadd, packages_todel, builds, commands, apk_log,
                 result, resolved>>

vars == <<sessionVars, repoVars, installVars>>

----------------------------------------------------------------------------
\* Bounds of the model

MaxUrls == 2          \* longest desired repository list
MaxFileLen == 3       \* longest initial repositories file, in characters
MaxRecursion == 1     \* deepest self-call of install_is_necessary explored
MaxVersion == 2       \* package versions are 1..MaxVersion
MaxReq == 2           \* longest list of requested packages
MaxClosure == 2       \* longest dependency closure

----------------------------------------------------------------------------
\* Generic helpers

Range(s) == {s[i] : i \in 1..Len(s)}

SeqsUpTo(S, n) == UNION {[1..k -> S] : k \in 0..n}

Suffixes == {"native", "rootfs_dev"}

----------------------------------------------------------------------------
\* update_repository_list

NL == "\n"

Chars == {"a", NL}

\* The mirror URLs of the model: two plain ones and one that ends in a newline
Urls == {<<"a">>, <<"a", "a">>, <<"a", NL>>}

\* A file: exists or not, and its characters
NoFile == [exists |-> FALSE, data |-> <<>>]

Files == {NoFile} \cup {[exists |-> TRUE, data |-> d] : d \in SeqsUpTo(Chars, MaxFileLen)}

path(suffix) == <<"work", "/chroot_", suffix, "/etc/apk/repositories">>

\* Position of the first NL in data, 0 if there is none
FirstNL(data) ==
    IF \E i \in 1..Len(data) : data[i] = NL
    THEN CHOOSE i \in 1..Len(data) : data[i] = NL /\ \A j \in 1..(i-1) : data[j] # NL
    ELSE 0

\* "for line in handle": the lines of the file, each with its newline, the
\* last one possibly without
RECURSIVE FileLines(_)
FileLines(data) ==
    IF data = <<>> THEN <<>>
    ELSE LET k == FirstNL(data) IN
         IF k = 0 THEN <<data>>
         ELSE <<SubSeq(data, 1, k)>> \o FileLines(SubSeq(data, k + 1, Len(data)))

\* line[:-1]
StripLast(line) == SubSeq(line, 1, Len(line) - 1)

\* lines_old as read at lines 33-39 (empty when the file does not exist)
ReadLinesOld(file) ==
    IF file.exists
    THEN LET ls == FileLines(file.data) IN [i \in 1..Len(ls) |-> StripLast(ls[i])]
    ELSE <<>>

\* The privileged operations (pmb.helpers.run.root)
OpMkdir == <<"mkdir", "-p">>
OpRm == <<"rm">>
OpEcho(line) == <<"sh", "-c", "echo", line>>

\* Effect of one privileged operation on the file
ApplyOp(file, op) ==
    IF op = OpMkdir THEN file
    ELSE IF op = OpRm THEN NoFile
    ELSE [exists |-> TRUE, data |-> file.data \o op[4] \o <<NL>>]

RECURSIVE ApplyOps(_, _)
ApplyOps(file, ops) ==
    IF ops = <<>> THEN file
    ELSE ApplyOps(ApplyOp(file, Head(ops)), Tail(ops))

\* Lines 55-59: delete the file if present, append every desired line
RewriteOps(file, lines_new) ==
    (IF file.exists THEN <<OpRm>> ELSE <<>>)
        \o [i \in 1..Len(lines_new) |-> OpEcho(lines_new[i])]

\* Lines 31-41: mkdir when the file is absent
ReadOps(file) == IF file.exists THEN <<>> ELSE <<OpMkdir>>

\* Variant of SkipUpdate: the session cache is never consulted
SkipUpdate_Never(suffix, cache) == FALSE

\* Lines 27-29
SkipUpdate(suffix, cache) == suffix \in Range(cache)

\* Variant of RunUpdate: the suffix is marked right after the rewrite, the
\* verification call of line 60 is left out
RunUpdate_NoVerify(suffix, file, lines_new, check) ==
    LET lines_old == ReadLinesOld(file)
        ops1 == ReadOps(file)
    IN  IF lines_old = lines_new
        THEN [ops |-> ops1, compares |-> 1, rewrites |-> 0, append |-> TRUE,
              result |-> <<"ok">>]
        ELSE IF check
        THEN [ops |-> ops1, compares |-> 1, rewrites |-> 0, append |-> FALSE,
              result |-> <<"RuntimeError", "Failed to update: ", path(suffix)>>]
        ELSE [ops |-> ops1 \o RewriteOps(file, lines_new), compares |-> 1,
              rewrites |-> 1, append |-> TRUE, result |-> <<"ok">>]

\* One run of update_repository_list(args, suffix, check) without failing
\* privileged operations: the operations in order, the number of comparisons
\* and rewrites, whether the suffix is appended to the cache, and the result.
RECURSIVE RunUpdate(_, _, _, _)
RunUpdate(suffix, file, lines_new, check) ==
    LET lines_old == ReadLinesOld(file)
        ops1 == ReadOps(file)
    IN  IF lines_old = lines_new
        THEN [ops |-> ops1, compares |-> 1, rewrites |-> 0, append |-> TRUE,
              result |-> <<"ok">>]
        ELSE IF check
        THEN [ops |-> ops1, compares |-> 1, rewrites |-> 0, append |-> FALSE,
              result |-> <<"RuntimeError", "Failed to update: ", path(suffix)>>]
        ELSE LET ops2 == RewriteOps(file, lines_new)
                 rec == RunUpdate(suffix, ApplyOps(file, ops2), lines_new, TRUE)
             IN  [ops |-> ops1 \o ops2 \o rec.ops,
                  compares |-> 1 + rec.compares,
                  rewrites |-> 1 + rec.rewrites,
                  append |-> rec.append,
                  result |-> rec.result]

NoCall == [suffix |-> "", ops |-> <<>>, compares |-> 0, rewrites |-> 0,
           result |-> <<"none">>, skipped |-> FALSE]

\* update_repository_list(args, suffix): the whole call, the verification
\* call of line 60 included.  fail = 0: every privileged operation succeeds;
\* fail = k: the k-th privileged operation raises and ends the call.
update_repository_list(suffix, fail) ==
    /\ sync_prev' = [suffix |-> sync_last.suffix, result |-> sync_last.result]
    /\ IF SkipUpdate(suffix, apk_repository_list_updated)
       THEN /\ fail = 0
            /\ sync_last' = [NoCall EXCEPT !.suffix = suffix, !.result = <<"ok">>,
                                           !.skipped = TRUE]
            /\ UNCHANGED <<apk_repository_list_updated, repositories>>
       ELSE LET run == RunUpdate(suffix, repositories[suffix], urls, FALSE) IN
            /\ fail <= Len(run.ops)
            /\ IF fail = 0
               THEN /\ repositories' = [repositories EXCEPT
                            ![suffix] = ApplyOps(@, run.ops)]
                    /\ apk_repository_list_updated' =
                            IF run.append
                            THEN Append(apk_repository_list_updated, suffix)
                            ELSE apk_repository_list_updated
                    /\ sync_last' = [suffix |-> suffix, ops |-> run.ops,
                                     compares |-> run.compares,
                                     rewrites |-> run.rewrites,
                                     result |-> run.result, skipped |-> FALSE]
               ELSE /\ repositories' = [repositories EXCEPT
                            ![suffix] = ApplyOps(@, SubSeq(run.ops, 1, fail - 1))]
                    /\ UNCHANGED apk_repository_list_updated
                    /\ sync_last' = [suffix |-> suffix,
                                     ops |-> SubSeq(run.ops, 1, fail),
                                     compares |-> 0, rewrites |-> 0,
                                     result |-> <<"CommandFailed">>,
                                     skipped |-> FALSE]
    /\ UNCHANGED <<urls, sessionVars, installVars>>

----------------------------------------------------------------------------
\* Text helpers (tokens are sequences of fragments)

\* str.startswith(c)
StartsWith(t, c) == Len(t) > 0 /\ t[1] = c

\* str.lstrip(c)
RECURSIVE LStrip(_, _)
LStrip(t, c) == IF StartsWith(t, c) THEN LStrip(Tail(t), c) ELSE t

\* Sequences over S without repetition, of length lo..hi
DistinctSeqs(S, lo, hi) ==
    {s \in UNION {[1..k -> S] : k \in lo..hi} :
        \A x, y \in 1..Len(s) : x # y => s[x] # s[y]}

----------------------------------------------------------------------------
\* Collaborators outside pmb/chroot/apk.py

\* pmb.parse.arch.from_chroot_suffix
from_chroot_suffix(suffix) == IF suffix = "native" THEN "x86_64" ELSE "aarch64"

\* pmb.parse.version.compare: -1, 0 or 1
compare_versions(a, b) == IF a > b THEN 1 ELSE IF a < b THEN -1 ELSE 0

\* float() on the timestamp strings of the model, in tenths of a second
float(t) == CASE t = "1" -> 10
              [] t = "1.0" -> 10
              [] t = "1.5" -> 15
              [] OTHER -> 0

Timestamps == {"1", "1.0", "1.5"}

\* "No entry": what pmb.parse.apkindex.package returns for a missing package
None == [version |-> 0, timestamp |-> ""]

----------------------------------------------------------------------------
\* check_min_version

\* Variant of check_min_version: a suffix whose check is skipped is marked
check_min_version_MarkSkipped(suffix, cache, apk_exists, outdated) ==
    IF suffix \in Range(cache)
    THEN [cache |-> cache, did |-> "cached"]
    ELSE IF ~apk_exists
    THEN [cache |-> Append(cache, suffix), did |-> "skipped"]
    ELSE IF outdated
    THEN [cache |-> cache, did |-> "outdated"]
    ELSE [cache |-> Append(cache, suffix), did |-> "checked"]

\* Variant of check_min_version: line 87 is left out, a verified suffix is
\* not marked
check_min_version_NoMark(suffix, cache, apk_exists, outdated) ==
    IF suffix \in Range(cache)
    THEN [cache |-> cache, did |-> "cached"]
    ELSE IF ~apk_exists
    THEN [cache |-> cache, did |-> "skipped"]
    ELSE IF outdated
    THEN [cache |-> cache, did |-> "outdated"]
    ELSE [cache |-> cache, did |-> "checked"]

\* Lines 69-87.  outdated: pmb.helpers.apk.check_outdated raises.
\* Gives the cache after the call and what the call did.
check_min_version(suffix, cache, apk_exists, outdated) ==
    IF suffix \in Range(cache)
    THEN [cache |-> cache, did |-> "cached"]
    ELSE IF ~apk_exists
    THEN [cache |-> cache, did |-> "skipped"]
    ELSE IF outdated
    THEN [cache |-> cache, did |-> "outdated"]
    ELSE [cache |-> Append(cache, suffix), did |-> "checked"]

----------------------------------------------------------------------------
\* install_is_necessary

\* Variant of build_disabled: the caller policy is ignored
build_disabled_Never(a) == FALSE

\* Lines 104-107
build_disabled(a) == a.action = "install" /\ ~a.build_pkgs_on_install

\* Variant of removal_is_necessary: every leading "!" is stripped, as line
\* 212 does, instead of the first one
removal_is_necessary_LStrip(package, installed) ==
    LStrip(package, "!") \in DOMAIN installed

\* Lines 100-102: package[1:] in packages_installed
removal_is_necessary(package, installed) == Tail(package) \in DOMAIN installed

\* Variant of update_is_necessary: equal timestamps count as outdated
update_is_necessary_Ge(data_installed, data_repo) ==
    LET compare == compare_versions(data_installed.version, data_repo.version) IN
    IF compare = 1 THEN FALSE
    ELSE IF compare = -1 THEN TRUE
    ELSE float(data_repo.timestamp) >= float(data_installed.timestamp)

\* Lines 136-157
update_is_necessary(data_installed, data_repo) ==
    LET compare == compare_versions(data_installed.version, data_repo.version) IN
    IF compare = 1 THEN FALSE
    ELSE IF compare = -1 THEN TRUE
    ELSE float(data_repo.timestamp) > float(data_installed.timestamp)

BuildCall(package, arch, force) == [package |-> package, arch |-> arch, force |-> force]

Frame(kind, value, error, b, data_repo, looked_up) ==
    [kind |-> kind, value |-> value, error |-> error, builds |-> b,
     data_repo |-> data_repo, looked_up |-> looked_up]

\* One frame of install_is_necessary (lines 100-157).  built_ok: the build of
\* line 111 returns; data_repo: what the index lookup of line 118 returns;
\* forced_ok: the forced build of line 132 returns.  kind "recurse" is the
\* self-call of line 133.  looked_up: the frame reached line 118.
install_is_necessary(a, build, arch, package, installed, built_ok, data_repo, forced_ok) ==
    IF StartsWith(package, "!")
    THEN Frame("return", removal_is_necessary(package, installed), "", <<>>, None, FALSE)
    ELSE LET do_build == build /\ ~build_disabled(a)
             b1 == IF do_build THEN <<BuildCall(package, arch, FALSE)>> ELSE <<>>
         IN  IF do_build /\ ~built_ok
             THEN Frame("raise", FALSE, "BuildError", b1, None, FALSE)
             ELSE IF package \notin DOMAIN installed
             THEN Frame("return", TRUE, "", b1, None, FALSE)
             ELSE IF data_repo = None
             THEN IF build_disabled(a)
                  THEN Frame("raise", FALSE, "RuntimeError: no binary package found",
                             b1, data_repo, TRUE)
                  ELSE LET b2 == b1 \o <<BuildCall(package, arch, TRUE)>> IN
                       IF forced_ok
                       THEN Frame("recurse", FALSE, "", b2, data_repo, TRUE)
                       ELSE Frame("raise", FALSE, "BuildError", b2, data_repo, TRUE)
             ELSE Frame("return", update_is_necessary(installed[package], data_repo),
                        "", b1, data_repo, TRUE)

----------------------------------------------------------------------------
\* replace_aports_packages_with_path

\* Lines 180-181
apk_path(arch, package, data_repo) ==
    <<"/mnt/pmbootstrap-packages/", arch, "/">> \o package
        \o <<"-", ToString(data_repo.version), ".apk">>

\* The index entry looked up for a package of the add-set
Lookup(idx, package) == IF package \in DOMAIN idx THEN idx[package] ELSE None

\* Variant of replace_aports_packages_with_path: the path is used without
\* looking whether the apk file exists
replace_aports_packages_with_path_NoExistsCheck(packages, arch, aports, idx, files) ==
    IF \E k \in 1..Len(packages) :
          packages[k] \in aports /\ Lookup(idx, packages[k]) = None
    THEN [error |-> "RuntimeError: could not find binary package", ret |-> <<>>]
    ELSE [error |-> "",
          ret |-> [k \in 1..Len(packages) |->
                     IF packages[k] \in aports
                     THEN apk_path(arch, packages[k], Lookup(idx, packages[k]))
                     ELSE packages[k]]]

\* Lines 167-185.  aports: the packages pmb.helpers.pmaports.find finds;
\* idx: what the index lookup of line 171 returns; files: the apk paths
\* that exist in the chroot.
replace_aports_packages_with_path(packages, arch, aports, idx, files) ==
    IF \E k \in 1..Len(packages) :
          packages[k] \in aports /\ Lookup(idx, packages[k]) = None
    THEN [error |-> "RuntimeError: could not find binary package", ret |-> <<>>]
    ELSE [error |-> "",
          ret |-> [k \in 1..Len(packages) |->
                     IF /\ packages[k] \in aports
                        /\ apk_path(arch, packages[k], Lookup(idx, packages[k])) \in files
                     THEN apk_path(arch, packages[k], Lookup(idx, packages[k]))
                     ELSE packages[k]]]

----------------------------------------------------------------------------
\* install

NotConflict(p) == ~StartsWith(p, "!")

\* Lines 237-238
packages_without_conflicts(packages) == SelectSeq(packages, NotConflict)

OptU == <<"-", "u">>
OptVirtual == <<"-", "-virtual">>
OptNoNetwork == <<"-", "-no-network">>
OptNoProgress == <<"-", "-no-progress">>
Virtual == <<".pmbootstrap">>

VirtualAdd == <<<<"add">>, OptU, OptVirtual, Virtual>>

\* Variant of PlainAdd: the add-set is marked instead of the request
PlainAdd_ToAdd(packages, toadd) == <<<<"add">>>> \o toadd

\* Line 246: the command that marks packages as explicitly installed
PlainAdd(packages, toadd) == <<<<"add">>>> \o packages_without_conflicts(packages)

\* Variant of ComposeCommands: the virtual package is used whenever the
\* add-set is not empty
ComposeCommands_AlwaysVirtual(packages, toadd, todel) ==
    (IF Len(toadd) > 0
     THEN <<VirtualAdd \o toadd, PlainAdd(packages, toadd), <<<<"del">>, Virtual>>>>
     ELSE <<PlainAdd(packages, toadd)>>)
    \o (IF Len(todel) > 0 THEN <<<<<<"del">>>> \o todel>> ELSE <<>>)

\* Variant of ComposeCommands: no plain add when the add-set is empty
ComposeCommands_NoAddWhenEmpty(packages, toadd, todel) ==
    (IF Len(toadd) > 0 /\ packages_without_conflicts(packages) # toadd
     THEN <<VirtualAdd \o toadd, PlainAdd(packages, toadd), <<<<"del">>, Virtual>>>>
     ELSE IF Len(toadd) > 0 THEN <<PlainAdd(packages, toadd)>> ELSE <<>>)
    \o (IF Len(todel) > 0 THEN <<<<<<"del">>>> \o todel>> ELSE <<>>)

\* Variant of ComposeCommands: the removal command is put first
ComposeCommands_DelFirst(packages, toadd, todel) ==
    (IF Len(todel) > 0 THEN <<<<<<"del">>>> \o todel>> ELSE <<>>)
    \o (IF Len(toadd) > 0 /\ packages_without_conflicts(packages) # toadd
        THEN <<VirtualAdd \o toadd, PlainAdd(packages, toadd), <<<<"del">>, Virtual>>>>
        ELSE <<PlainAdd(packages, toadd)>>)

\* Lines 242-249
ComposeCommands(packages, toadd, todel) ==
    (IF Len(toadd) > 0 /\ packages_without_conflicts(packages) # toadd
     THEN <<VirtualAdd \o toadd, PlainAdd(packages, toadd), <<<<"del">>, Virtual>>>>
     ELSE <<PlainAdd(packages, toadd)>>)
    \o (IF Len(todel) > 0 THEN <<<<<<"del">>>> \o todel>> ELSE <<>>)

\* Variant of IsInvalid: the sanitizer rejects nothing
IsInvalid_Never(package) == FALSE

\* Lines 220-222: the tokens the sanitizer rejects
IsInvalid(package) == StartsWith(package, "-")

Sanitize(toadd, todel) == \E k \in 1..Len(toadd \o todel) : IsInvalid((toadd \o todel)[k])

\* Lines 250-261: the k-th command as handed to the execution collaborator
Invocation(a, k, command) ==
    LET c == IF a.offline THEN <<OptNoNetwork>> \o command ELSE command IN
    IF k = 1
    THEN [via |-> "apk_with_progress", argv |-> <<<<"apk">>>> \o c, command |-> command]
    ELSE [via |-> "chroot.root", argv |-> <<<<"apk">>, OptNoProgress>> \o c,
          command |-> command]

NoFrame == Frame("none", FALSE, "", <<>>, None, FALSE)

NoResolve == [called |-> FALSE, packages |-> <<>>, arch |-> "", aports |-> {},
              idx |-> <<>>, files |-> {}, error |-> "", ret |-> <<>>]

\* Lines 195-204: version gate, chroot init, dependency closure, snapshot of
\* the installed packages.  closure: what pmb.parse.depends.recurse returns;
\* snapshot: what installed() returns.
InstallBegin(packages, suffix, build, outdated, closure, snapshot) ==
    LET g == check_min_version(suffix, apk_min_version_checked, sbin_apk[suffix],
                               outdated) IN
    /\ pc \in {"idle", "done"}
    /\ req' = [packages |-> packages, suffix |-> suffix, build |-> build]
    /\ gate' = g.did
    /\ apk_min_version_checked' = g.cache
    /\ nec' = NoFrame
    /\ depth' = 0
    /\ pos' = 1
    /\ packages_toadd' = <<>>
    /\ packages_todel' = <<>>
    /\ builds' = <<>>
    /\ commands' = <<>>
    /\ apk_log' = <<>>
    /\ UNCHANGED resolved
    /\ IF g.did = "outdated"
       THEN /\ pc' = "done"
            /\ result' = "RuntimeError: apk version outdated"
            /\ packages_with_depends' = <<>>
            /\ packages_installed' = <<>>
            /\ UNCHANGED sbin_apk
       ELSE /\ pc' = "filter"
            /\ result' = ""
            /\ sbin_apk' = [sbin_apk EXCEPT ![suffix] = TRUE]
            /\ packages_with_depends' = closure
            /\ packages_installed' = snapshot
    /\ UNCHANGED <<args, repoVars>>

\* Lines 207-214: one call (or self-call) of install_is_necessary for the
\* package at the loop position, and the bookkeeping of its outcome
InstallFilter(built_ok, data_repo, forced_ok) ==
    /\ pc = "filter"
    /\ pos <= Len(packages_with_depends)
    /\ depth <= MaxRecursion
    /\ LET package == packages_with_depends[pos]
           f == install_is_necessary(args, req.build, from_chroot_suffix(req.suffix),
                                     package, packages_installed, built_ok, data_repo,
                                     forced_ok)
       IN  \* collaborator outcomes the frame never asked for are left at
           \* their defaults
           /\ built_ok \/ f.builds # <<>>
           /\ data_repo = None \/ f.looked_up
           /\ forced_ok \/ (\E k \in 1..Len(f.builds) : f.builds[k].force)
           /\ nec' = f
           /\ builds' = builds \o f.builds
           /\ IF f.kind = "recurse"
              THEN /\ depth' = depth + 1
                   /\ UNCHANGED <<pc, pos, packages_toadd, packages_todel, result>>
              ELSE IF f.kind = "raise"
              THEN /\ pc' = "done"
                   /\ result' = f.error
                   /\ UNCHANGED <<depth, pos, packages_toadd, packages_todel>>
              ELSE /\ depth' = 0
                   /\ pos' = pos + 1
                   /\ packages_toadd' =
                         IF f.value /\ ~StartsWith(package, "!")
                         THEN Append(packages_toadd, package) ELSE packages_toadd
                   /\ packages_todel' =
                         IF f.value /\ StartsWith(package, "!")
                         THEN Append(packages_todel, LStrip(package, "!"))
                         ELSE packages_todel
                   /\ UNCHANGED <<pc, result>>
    /\ UNCHANGED <<req, gate, packages_with_depends, packages_installed, commands,
                   apk_log, resolved, sessionVars, repoVars>>

\* Variant of RunCommands: a failing command does not end the loop
RunCommands_ContinueOnFailure(a, cmds, fail) ==
    [k \in 1..Len(cmds) |->
        LET inv == Invocation(a, k, cmds[k]) IN
        [via |-> inv.via, argv |-> inv.argv, command |-> inv.command,
         failed |-> (k = fail)]]

\* Lines 250-261: the commands run in order until one fails.  fail = 0:
\* every command exits with status 0; fail = k: the k-th command fails.
\* Gives the invocations made.
RunCommands(a, cmds, fail) ==
    [k \in 1..(IF fail = 0 THEN Len(cmds) ELSE fail) |->
        LET inv == Invocation(a, k, cmds[k]) IN
        [via |-> inv.via, argv |-> inv.argv, command |-> inv.command,
         failed |-> (k = fail)]]

\* Variant of IsNoop: install() goes on with empty sets
IsNoop_Never(toadd, todel) == FALSE

\* Lines 215-216: nothing to add and nothing to remove
IsNoop(toadd, todel) == Len(toadd) = 0 /\ Len(todel) = 0

\* Lines 215-261: no-op return, sanitizer, path resolver, command list,
\* execution
InstallApply(aports, idx, files, fail) ==
    /\ pc = "filter"
    /\ pos > Len(packages_with_depends)
    /\ pc' = "done"
    /\ IF IsNoop(packages_toadd, packages_todel)
       THEN /\ aports = {} /\ fail = 0
            /\ result' = "ok"
            /\ UNCHANGED <<packages_toadd, commands, apk_log>>
       ELSE IF Sanitize(packages_toadd, packages_todel)
       THEN /\ aports = {} /\ fail = 0
            /\ result' = "ValueError: Invalid package name"
            /\ UNCHANGED <<packages_toadd, commands, apk_log>>
       ELSE LET r == replace_aports_packages_with_path(
                        packages_toadd, from_chroot_suffix(req.suffix), aports, idx,
                        files)
                cmds == ComposeCommands(req.packages, r.ret, packages_todel)
            IN  IF r.error # ""
                THEN /\ fail = 0
                     /\ result' = r.error
                     /\ UNCHANGED <<packages_toadd, commands, apk_log>>
                ELSE /\ fail <= Len(cmds)
                     /\ packages_toadd' = r.ret
                     /\ commands' = cmds
                     /\ apk_log' = RunCommands(args, cmds, fail)
                     /\ result' = IF fail = 0 THEN "ok" ELSE "CommandFailed"
    /\ nec' = NoFrame
    /\ UNCHANGED <<req, gate, packages_with_depends, packages_installed, pos, depth,
                   packages_todel, builds, resolved, sessionVars, repoVars>>

----------------------------------------------------------------------------
\* Specification of the repository list synchronizer

ArgsSet == [action : {"install", "chroot"}, build_pkgs_on_install : BOOLEAN,
            offline : BOOLEAN]

\* No install() call is running
InstallIdle ==
    /\ pc = "idle"
    /\ req = [packages |-> <<>>, suffix |-> "", build |-> FALSE]
    /\ gate = "none"
    /\ packages_with_depends = <<>>
    /\ packages_installed = <<>>
    /\ pos = 1
    /\ depth = 0
    /\ nec = NoFrame
    /\ packages_toadd = <<>>
    /\ packages_todel = <<>>
    /\ builds = <<>>
    /\ commands = <<>>
    /\ apk_log = <<>>
    /\ result = ""
    /\ resolved = NoResolve

InitRepo ==
    /\ apk_repository_list_updated = <<>>
    /\ apk_min_version_checked = <<>>
    /\ args = [action |-> "install", build_pkgs_on_install |-> TRUE, offline |-> FALSE]
    /\ \E f \in Files : repositories = [s \in Suffixes |-> IF s = "native" THEN f ELSE NoFile]
    /\ urls \in SeqsUpTo(Urls, MaxUrls)
    /\ sbin_apk = [s \in Suffixes |-> FALSE]
    /\ sync_last = NoCall
    /\ sync_prev = [suffix |-> NoCall.suffix, result |-> NoCall.result]
    /\ InstallIdle

NextRepo ==
    \E suffix \in Suffixes, fail \in 0..(MaxUrls + 2) :
        update_repository_list(suffix, fail)

SpecRepo == InitRepo /\ [][NextRepo]_vars

----------------------------------------------------------------------------
\* Inputs of the model

\* Package tokens: two plain names, an option smuggled as a name, a removal
Tokens == {<<"a">>, <<"d">>, <<"-", "x">>, <<"!", "b">>}

\* "d" is only ever a dependency
Requests == DistinctSeqs(Tokens \ {<<"d">>}, 1, MaxReq)

\* The subsequence of s at the positions in keep
RECURSIVE SubSeqAt(_, _, _)
SubSeqAt(s, keep, k) ==
    IF k > Len(s) THEN <<>>
    ELSE (IF k \in keep THEN <<s[k]>> ELSE <<>>) \o SubSeqAt(s, keep, k + 1)

\* pmb.parse.depends.recurse: the requested tokens that resolve under their
\* own name, in request order, followed by the packages pulled in
\* (dependencies, conflicts, providers of a requested name)
Closures(packages) ==
    {c \in {SubSeqAt(packages, keep, 1) \o deps :
                keep \in SUBSET (1..Len(packages)),
                deps \in DistinctSeqs(Tokens \ Range(packages), 0, MaxClosure)} :
        c # <<>> /\ Len(c) <= MaxClosure}

\* The package names a closure refers to
NamesOf(closure) ==
    {IF StartsWith(closure[k], "!") THEN Tail(closure[k]) ELSE closure[k] :
        k \in 1..Len(closure)}

Entries == [version : 1..MaxVersion, timestamp : Timestamps]

InstalledEntry == [version |-> 1, timestamp |-> "1"]

\* Installed snapshots, as far as a closure reads them
Snapshots(closure) == UNION {[D -> {InstalledEntry}] : D \in SUBSET NamesOf(closure)}

\* What an index lookup may return during install(): nothing, the installed
\* version, a newer version
PlanLookups == {None, InstalledEntry, [version |-> MaxVersion, timestamp |-> "1"]}

\* What the index lookup of the path resolver may return
PathLookups == {None, [version |-> MaxVersion, timestamp |-> "1"]}

\* The apk files of the looked-up versions of the given packages
ApkFiles(arch, aports, idx) ==
    {apk_path(arch, p, idx[p]) : p \in {q \in aports : idx[q] # None}}

FilterSteps(lookups) ==
    \E built_ok \in BOOLEAN, data_repo \in lookups, forced_ok \in BOOLEAN :
        InstallFilter(built_ok, data_repo, forced_ok)

\* The longest command list: virtual add, plain add, virtual del, del
MaxCommands == 4

ApplySteps ==
    \E aports \in SUBSET Range(packages_toadd) :
        \E idx \in [aports -> PathLookups] :
            \E files \in SUBSET ApkFiles(from_chroot_suffix(req.suffix), aports, idx) :
                \E fail \in 0..MaxCommands :
                    InstallApply(aports, idx, files, fail)

RepoIdle ==
    /\ apk_repository_list_updated = <<>>
    /\ repositories = [s \in Suffixes |-> NoFile]
    /\ urls = <<>>
    /\ sync_last = NoCall
    /\ sync_prev = [suffix |-> NoCall.suffix, result |-> NoCall.result]

----------------------------------------------------------------------------
\* Specification of install(): one request, every request list, closure,
\* snapshot, index state and configuration of the model

Init ==
    /\ apk_min_version_checked = <<>>
    /\ args \in {a \in ArgsSet : a.action = "install"}
    /\ sbin_apk = [s \in Suffixes |-> TRUE]
    /\ RepoIdle
    /\ InstallIdle

\* install(args, packages, suffix, build) is called
\* calls: the request lists, each with a closure the resolver may return
InstallCalls(calls, suffixes) ==
    \E call \in calls, suffix \in suffixes, build \in BOOLEAN, outdated \in BOOLEAN :
        \E snapshot \in Snapshots(call.closure) :
            InstallBegin(call.packages, suffix, build, outdated, call.closure, snapshot)

\* Every request of the model with every closure of it
Calls ==
    UNION {{[packages |-> packages, closure |-> closure] : closure \in Closures(packages)} :
              packages \in Requests}

Begin == pc = "idle" /\ InstallCalls(Calls, {"native"})

Next == Begin \/ FilterSteps(PlanLookups) \/ ApplySteps

Spec == Init /\ [][Next]_vars

----------------------------------------------------------------------------
\* Specification of a session: install() is called again and again, for
\* both suffixes, starting from chroots with and without apk

SessionRequests == {<<<<"a">>>>}

\* The resolver adds nothing to the request
SessionCalls == {[packages |-> packages, closure |-> packages] : packages \in SessionRequests}

InitSession ==
    /\ apk_min_version_checked = <<>>
    /\ args = [action |-> "install", build_pkgs_on_install |-> FALSE, offline |-> FALSE]
    /\ sbin_apk \in [Suffixes -> BOOLEAN]
    /\ RepoIdle
    /\ InstallIdle

BeginSession == InstallCalls(SessionCalls, Suffixes)

NextSession == BeginSession \/ FilterSteps(PlanLookups) \/ ApplySteps

SpecSession == InitSession /\ [][NextSession]_vars

----------------------------------------------------------------------------
\* Specification of install_is_necessary alone: the loop of line 207 at a
\* closure of one package, for every package, snapshot, index entry, build
\* flag, build policy and architecture of the model

NecPackages == {<<"a">>, <<"!", "a">>, <<"!", "!", "a">>, <<"-", "x">>, <<"!", "-", "x">>}

NecSnapshots ==
    UNION {[D -> Entries] : D \in SUBSET {<<"a">>, <<"-", "x">>}}

NecLookups == Entries \cup {None}

InitNec ==
    /\ apk_min_version_checked = <<>>
    /\ args \in {a \in ArgsSet : ~a.offline}
    /\ sbin_apk = [s \in Suffixes |-> TRUE]
    /\ RepoIdle
    /\ pc = "filter"
    /\ \E package \in NecPackages, suffix \in Suffixes, build \in BOOLEAN :
          /\ req = [packages |-> <<package>>, suffix |-> suffix, build |-> build]
          /\ packages_with_depends = <<package>>
    /\ packages_installed \in NecSnapshots
    /\ gate = "none"
    /\ pos = 1
    /\ depth = 0
    /\ nec = NoFrame
    /\ packages_toadd = <<>>
    /\ packages_todel = <<>>
    /\ builds = <<>>
    /\ commands = <<>>
    /\ apk_log = <<>>
    /\ result = ""
    /\ resolved = NoResolve

NextNec == FilterSteps(NecLookups)

SpecNec == InitNec /\ [][NextNec]_vars

----------------------------------------------------------------------------
\* Specification of replace_aports_packages_with_path alone: every add-set,
\* suffix, aports lookup, index state and set of apk files of the model

PathPackages == DistinctSeqs({<<"a">>, <<"d">>}, 0, MaxReq)

\* Index entries of the path resolver: none, or any version
PathEntries == {None} \cup {[version |-> v, timestamp |-> "1"] : v \in 1..MaxVersion}

\* The apk files of every version of the given packages
AllApkFiles(arch, packages) ==
    {apk_path(arch, p, [version |-> v, timestamp |-> "1"]) :
        p \in Range(packages), v \in 1..MaxVersion}

\* replace_aports_packages_with_path(args, packages_toadd, suffix, arch)
ResolvePaths(aports, idx, files) ==
    /\ pc = "resolve"
    /\ LET arch == from_chroot_suffix(req.suffix)
           r == replace_aports_packages_with_path(packages_toadd, arch, aports, idx,
                                                  files)
       IN  /\ resolved' = [called |-> TRUE, packages |-> packages_toadd, arch |-> arch,
                           aports |-> aports, idx |-> idx, files |-> files,
                           error |-> r.error, ret |-> r.ret]
           /\ packages_toadd' = IF r.error = "" THEN r.ret ELSE packages_toadd
           /\ result' = IF r.error = "" THEN "ok" ELSE r.error
    /\ pc' = "done"
    /\ UNCHANGED <<req, gate, packages_with_depends, packages_installed, pos, depth,
                   nec, packages_todel, builds, commands, apk_log, sessionVars,
                   repoVars>>

InitPath ==
    /\ apk_min_version_checked = <<>>
    /\ args = [action |-> "install", build_pkgs_on_install |-> FALSE, offline |-> FALSE]
    /\ sbin_apk = [s \in Suffixes |-> TRUE]
    /\ RepoIdle
    /\ pc = "resolve"
    /\ \E suffix \in Suffixes : req = [packages |-> <<>>, suffix |-> suffix, build |-> FALSE]
    /\ packages_toadd \in PathPackages
    /\ gate = "none"
    /\ packages_with_depends = <<>>
    /\ packages_installed = <<>>
    /\ pos = 1
    /\ depth = 0
    /\ nec = NoFrame
    /\ packages_todel = <<>>
    /\ builds = <<>>
    /\ commands = <<>>
    /\ apk_log = <<>>
    /\ result = ""
    /\ resolved = NoResolve

NextPath ==
    \E aports \in SUBSET Range(packages_toadd) :
        \E idx \in [aports -> PathEntries] :
            \E files \in SUBSET AllApkFiles(from_chroot_suffix(req.suffix), packages_toadd) :
                ResolvePaths(aports, idx, files)

SpecPath == InitPath /\ [][NextPath]_vars

----------------------------------------------------------------------------
\* Properties

\* The package arguments of a composed command: everything after the
\* sub-command and, for the virtual add, after its fixed options
PackageArgs(command) ==
    IF Len(command) >= 4 /\ SubSeq(command, 1, 4) = VirtualAdd
    THEN SubSeq(command, 5, Len(command))
    ELSE Tail(command)

IsVirtualAdd(command) == Len(command) >= 4 /\ SubSeq(command, 1, 4) = VirtualAdd

Requested == packages_without_conflicts(req.packages)

HasDashToken(tokens) == \E k \in 1..Len(tokens) : StartsWith(tokens[k], "-")

ValidationError == "ValueError: Invalid package name"

ForcedBuilds(b) == {k \in 1..Len(b) : b[k].force}

\* The explicitly-installed marks (apk's world) a run of commands leaves:
\* a plain add marks its arguments, a virtual add marks the virtual package
\* only, a del unmarks its arguments
RECURSIVE ExplicitMarks(_)
ExplicitMarks(log) ==
    IF log = <<>> THEN {}
    ELSE LET before == ExplicitMarks(SubSeq(log, 1, Len(log) - 1))
             c == log[Len(log)].command
         IN  IF IsVirtualAdd(c) THEN before \cup {Virtual}
             ELSE IF c[1] = <<"add">> THEN before \cup Range(Tail(c))
             ELSE before \ Range(Tail(c))

\* C1 (as claimed): no package argument of any package-manager command
\* executed by install() begins with "-".
C1_NoDashArgument ==
    \A k \in 1..Len(apk_log) : ~HasDashToken(PackageArgs(apk_log[k].command))

\* C2 (as claimed): if a token of the requested list or of its closure starts
\* with "-", install() does not succeed and runs no package-manager command.
C2_DashTokenAborts ==
    (HasDashToken(req.packages) \/ HasDashToken(packages_with_depends))
        => (apk_log = <<>> /\ result # "ok")

\* C3 (as claimed): when install() fails with the validation error, neither
\* the package builder nor any package-manager command has been invoked.
C3_NoSideEffectBeforeValidationError ==
    result = ValidationError => (builds = <<>> /\ apk_log = <<>>)

\* C3 (amended): the validation happens before any package-manager command:
\* when install() fails with the validation error no command has been run,
\* and no command is ever run while a token of the add-set or of the
\* remove-set starts with "-".  The package builder may have been invoked.
C3_NoCommandBeforeValidationError ==
    /\ result = ValidationError => apk_log = <<>>
    /\ apk_log # <<>> => ~HasDashToken(packages_toadd \o packages_todel)

C3_Witness == result = ValidationError /\ builds # <<>>

\* C4 (as claimed): when a package-manager command has run in a suffix, the
\* suffix is in the "min version checked" cache.
C4_GateCheckedBeforeFirstCommand ==
    apk_log # <<>> => req.suffix \in Range(apk_min_version_checked)

\* C4 (amended): every package-manager command of a suffix is preceded, in
\* the same install() call, by a check_min_version call for that suffix,
\* which found the suffix verified or verified it (the suffix is then in the
\* cache), unless sbin/apk did not exist in the chroot when it ran: then the
\* check was skipped and the suffix is not in the cache when the commands run.
C4_GateRunBeforeFirstCommand ==
    /\ [](apk_log # <<>> =>
            \/ gate \in {"cached", "checked"}
                 /\ req.suffix \in Range(apk_min_version_checked)
            \/ gate = "skipped"
                 /\ req.suffix \notin Range(apk_min_version_checked))
    /\ [][(pc' = "filter" /\ pc # "filter" /\ gate' = "skipped")
              => ~sbin_apk[req'.suffix]]_vars

C4_Witness == apk_log # <<>> /\ gate = "skipped"

\* C5 (as claimed): install_is_necessary forces a rebuild at most once.
C5_ForcedRebuildAtMostOnce == Cardinality(ForcedBuilds(builds)) <= 1

\* C6: a non-virtual add command is given exactly the requested non-removal
\* names, every other added token is a member of the virtual package only,
\* and after a successful request the explicit marks are requested names.
C6_ExplicitMarkOnlyRequested ==
    /\ \A k \in 1..Len(apk_log) :
          LET c == apk_log[k].command IN
          c[1] = <<"add">> => (IsVirtualAdd(c) \/ Tail(c) = Requested)
    /\ result = "ok" => ExplicitMarks(apk_log) \subseteq Range(Requested)

C6_Witness ==
    /\ result = "ok"
    /\ Len(apk_log) >= 3
    /\ \E k \in 1..Len(packages_toadd) : packages_toadd[k] \notin Range(Requested)

\* C7: a call of update_repository_list that follows a successful call for
\* the same suffix performs no privileged operation.
C7_SecondSyncWritesNothing ==
    (sync_prev.result = <<"ok">> /\ sync_prev.suffix = sync_last.suffix)
        => sync_last.ops = <<>>

C7_Witness ==
    /\ sync_prev.result = <<"ok">>
    /\ sync_prev.suffix = sync_last.suffix
    /\ sync_last.skipped
    /\ urls # <<>>
    /\ ReadLinesOld(repositories[sync_last.suffix]) = urls

OpsOf(ops, kind) == {k \in 1..Len(ops) : ops[k][1] = kind}

\* C8: a call deletes and rewrites the file at most once; after a rewrite it
\* compares exactly once more; it then marks the suffix when the re-read
\* lines equal the desired list, and otherwise fails with an error naming the
\* file, without a second rewrite and without marking the suffix.
C8_OneRewriteOneVerification ==
    LET c == sync_last
        lines == ReadLinesOld(repositories[c.suffix])
    IN  c.suffix \in Suffixes =>
        /\ Cardinality(OpsOf(c.ops, "rm")) <= 1
        /\ Cardinality(OpsOf(c.ops, "sh")) <= Len(urls)
        /\ c.rewrites <= 1
        /\ c.rewrites = 1 => c.compares = 2
        /\ (c.rewrites = 1 /\ c.result = <<"ok">>) =>
              (lines = urls /\ c.suffix \in Range(apk_repository_list_updated))
        /\ c.result[1] = "RuntimeError" =>
              /\ c.rewrites = 1
              /\ c.result[3] = path(c.suffix)
              /\ lines # urls
              /\ c.suffix \notin Range(apk_repository_list_updated)

C8_Witness == sync_last.result[1] = "RuntimeError"

\* C9: for a removal spec "!name" install_is_necessary returns whether name
\* is a key of the installed snapshot, whatever the build flag, the build
\* policy and the architecture, and it never invokes the builder.
C9_RemovalNecessity ==
    LET package == packages_with_depends[1] IN
    (nec.kind # "none" /\ StartsWith(package, "!")) =>
        /\ nec.kind = "return"
        /\ nec.value = (SubSeq(package, 2, Len(package)) \in DOMAIN packages_installed)
        /\ builds = <<>>

C9_Witness ==
    /\ nec.kind = "return"
    /\ StartsWith(packages_with_depends[1], "!")
    /\ nec.value
    /\ req.build /\ ~build_disabled(args)

\* C10: for a non-removal package install_is_necessary returns true when the
\* package is not installed; otherwise, with an index entry, true for a newer
\* repo version, false for a newer installed version, and for equal versions
\* true exactly when the repo timestamp is strictly greater.
C10_InstallNecessity ==
    LET package == packages_with_depends[1] IN
    (nec.kind = "return" /\ ~StartsWith(package, "!")) =>
        IF package \notin DOMAIN packages_installed
        THEN nec.value
        ELSE LET inst == packages_installed[package]
                 repo == nec.data_repo
             IN  /\ repo # None
                 /\ repo.version > inst.version => nec.value
                 /\ inst.version > repo.version => ~nec.value
                 /\ repo.version = inst.version =>
                       nec.value = (float(repo.timestamp) > float(inst.timestamp))

C10_Witness ==
    LET package == packages_with_depends[1] IN
    /\ nec.kind = "return" /\ nec.value
    /\ package \in DOMAIN packages_installed
    /\ nec.data_repo.version = packages_installed[package].version
    /\ packages_installed[package].timestamp = "1"
    /\ nec.data_repo.timestamp = "1.5"

IsAdd(command) == command[1] = <<"add">>

VirtualDel == <<<<"del">>, Virtual>>

\* C11: the commands run are the composed commands, in the composed order,
\* each one after the previous one has returned without failure, the first
\* through apk_with_progress and the others through chroot.root; every add
\* comes before the deletion of the virtual package, which comes before the
\* removal of the remove-set.
C11_CommandsInComposedOrder ==
    /\ Len(apk_log) <= Len(commands)
    /\ \A k \in 1..Len(apk_log) :
          /\ apk_log[k].command = commands[k]
          /\ apk_log[k].via = (IF k = 1 THEN "apk_with_progress" ELSE "chroot.root")
          /\ k > 1 => ~apk_log[k - 1].failed
    /\ \A i, j \in 1..Len(apk_log) :
          LET ci == apk_log[i].command
              cj == apk_log[j].command
          IN  /\ (IsAdd(ci) /\ ~IsAdd(cj)) => i < j
              /\ (ci = VirtualDel /\ ~IsAdd(cj) /\ cj # VirtualDel) => i < j

C11_Witness ==
    /\ result = "ok"
    /\ Len(apk_log) = 4
    /\ apk_log[3].command = VirtualDel
    /\ apk_log[4].command = <<<<"del">>>> \o packages_todel

\* C12: when the k-th command fails install() fails, the failing command is
\* the last one run, and the commands run are the first k composed commands
\* and nothing else (no later command, no compensating command).
C12_FailureStopsWithoutRollback ==
    /\ \A k \in 1..Len(apk_log) :
          apk_log[k].failed => (k = Len(apk_log) /\ result = "CommandFailed")
    /\ result = "CommandFailed" =>
          /\ apk_log # <<>>
          /\ apk_log[Len(apk_log)].failed
          /\ Len(apk_log) <= Len(commands)
          /\ \A k \in 1..Len(apk_log) : apk_log[k].command = commands[k]
    /\ (result = "ok" /\ commands # <<>>) => Len(apk_log) = Len(commands)

\* The plain add failed after the virtual add: the virtual package stays
C12_Witness ==
    /\ result = "CommandFailed"
    /\ Len(apk_log) = 2
    /\ IsVirtualAdd(apk_log[1].command)
    /\ Len(commands) >= 3

\* Line 180: a token the path resolver put in place of a name
IsPath(t) == StartsWith(t, "/mnt/pmbootstrap-packages/")

NoPathSubstituted == \A k \in 1..Len(packages_toadd) : ~IsPath(packages_toadd[k])

ExecutedCommands == [k \in 1..Len(apk_log) |-> apk_log[k].command]

DelCommands == IF Len(packages_todel) > 0 THEN <<<<<<"del">>>> \o packages_todel>> ELSE <<>>

\* [add <requested names>], then [del <remove-set>] when it is not empty
SimpleCommands == <<<<<<"add">>>> \o Requested>> \o DelCommands

\* The virtual-package transaction, then [del <remove-set>]
VirtualCommands ==
    <<VirtualAdd \o packages_toadd, <<<<"add">>>> \o Requested, VirtualDel>> \o DelCommands

\* C13 (as claimed): when install() ran its commands and no name of the
\* add-set was replaced by a path, the commands run are [add <requested
\* names>] and, for a non-empty remove-set, [del <remove-set>].
C13_NoVirtualWithoutSubstitution ==
    (result = "ok" /\ apk_log # <<>> /\ NoPathSubstituted)
        => ExecutedCommands = SimpleCommands

\* C13 (amended): when no name of the add-set was replaced by a path, the
\* commands run are [add <requested names>] (and [del <remove-set>]) exactly
\* when the add-set is empty or equals, as an ordered list, the requested
\* names without removal specs; otherwise (the closure added a dependency, a
\* requested name was up to date, the order differs) the virtual-package
\* transaction is run although no path was substituted.
C13_VirtualUnlessAddSetIsRequest ==
    (result = "ok" /\ apk_log # <<>> /\ NoPathSubstituted) =>
        IF packages_toadd = <<>> \/ packages_toadd = Requested
        THEN ExecutedCommands = SimpleCommands
        ELSE ExecutedCommands = VirtualCommands

\* Request ["a", "!b"], closure the same, a not installed, b installed
C13_Witness ==
    /\ result = "ok"
    /\ req.packages = <<<<"a">>, <<"!", "b">>>>
    /\ ExecutedCommands = <<<<<<"add">>, <<"a">>>>, <<<<"del">>, <<"b">>>>>>

\* C14: the composed command list is the virtual-package transaction when
\* the add-set is not empty and differs from the requested names without
\* removal specs, and the single plain add otherwise, followed by one del of
\* the remove-set exactly when it is not empty; a request that is no no-op
\* and passes validation and path resolution has such a list.
C14_ComposedCommandList ==
    /\ commands # <<>> =>
          commands = (IF packages_toadd # <<>> /\ packages_toadd # Requested
                      THEN VirtualCommands ELSE SimpleCommands)
    /\ (pc = "done" /\ result \in {"ok", "CommandFailed"}
            /\ (packages_toadd # <<>> \/ packages_todel # <<>>))
          => commands # <<>>

\* The plain add is composed also when the add-set is empty
C14_Witness ==
    /\ packages_toadd = <<>>
    /\ Len(commands) = 2
    /\ commands[1] = <<<<"add">>>> \o Requested
    /\ commands[2] = <<<<"del">>>> \o packages_todel

\* C15: a call of check_min_version (the first step of every install() call)
\* for a marked suffix does nothing; for an unmarked suffix it is skipped
\* when sbin/apk does not exist, fails when the outdated-check raises, both
\* without touching the cache, and appends the suffix exactly when the
\* outdated-check returned; nothing else changes the cache.
C15_MarkedOnlyAfterSuccessfulCheck ==
    [][IF pc \in {"idle", "done"}
       THEN IF req'.suffix \in Range(apk_min_version_checked)
            THEN gate' = "cached" /\ UNCHANGED apk_min_version_checked
            ELSE IF ~sbin_apk[req'.suffix]
            THEN gate' = "skipped" /\ UNCHANGED apk_min_version_checked
            ELSE \/ gate' = "outdated" /\ UNCHANGED apk_min_version_checked
                 \/ /\ gate' = "checked"
                    /\ apk_min_version_checked' =
                          Append(apk_min_version_checked, req'.suffix)
       ELSE UNCHANGED apk_min_version_checked]_vars

\* A failed check left its suffix unmarked while the other suffix is marked
C15_Witness ==
    /\ gate = "outdated"
    /\ apk_min_version_checked # <<>>
    /\ req.suffix \notin Range(apk_min_version_checked)

\* The lines a file holds: each line of its content without its newline
\* (an absent file holds none)
ContentLines(file) ==
    IF file.exists
    THEN LET ls == FileLines(file.data) IN
         [i \in 1..Len(ls) |->
            IF ls[i][Len(ls[i])] = NL THEN StripLast(ls[i]) ELSE ls[i]]
    ELSE <<>>

\* C16 (as claimed): after a call of update_repository_list that started with
\* the suffix unmarked and returned successfully, the lines of the file are
\* the desired URL list and the suffix is marked; a suffix is marked only
\* after a comparison; no line is written before the directory is created.
C16_SuccessMeansFileHoldsUrls ==
    LET c == sync_last IN
    /\ (c.suffix \in Suffixes /\ ~c.skipped /\ c.result = <<"ok">>) =>
          /\ ContentLines(repositories[c.suffix]) = urls
          /\ c.suffix \in Range(apk_repository_list_updated)
          /\ c.compares >= 1
    /\ \A i, j \in 1..Len(c.ops) :
          (c.ops[i][1] = "sh" /\ c.ops[j] = OpMkdir) => j < i

\* C17: when the action is "install" and build_pkgs_on_install is false,
\* install_is_necessary never invokes the builder, and for an installed
\* package without index entry it raises instead of rebuilding or calling
\* itself again.
C17_NoBuildWhenDisabledByPolicy ==
    LET package == packages_with_depends[1] IN
    (args.action = "install" /\ ~args.build_pkgs_on_install) =>
        /\ builds = <<>>
        /\ nec.kind # "recurse"
        /\ depth = 0
        /\ (nec.kind # "none" /\ ~StartsWith(package, "!")
               /\ package \in DOMAIN packages_installed /\ nec.data_repo = None) =>
              /\ nec.kind = "raise"
              /\ nec.error = "RuntimeError: no binary package found"
              /\ result = nec.error

C17_Witness ==
    /\ args.action = "install" /\ ~args.build_pkgs_on_install
    /\ req.build
    /\ nec.kind = "raise"
    /\ packages_with_depends[1] \in DOMAIN packages_installed

\* C18 (as claimed): during an install() call with build = False the
\* package builder is never invoked.
C18_NoBuildWhenBuildFlagFalse == ~req.build => builds = <<>>

\* C19: when the filter loop ends with an empty add-set and an empty
\* remove-set, install() returns normally, composes and runs no command and
\* raises no validation error, whatever the request holds.
C19_NoopRunsNothing ==
    (pc = "done" /\ gate # "outdated" /\ pos > Len(packages_with_depends)
        /\ packages_toadd = <<>> /\ packages_todel = <<>>)
        => (result = "ok" /\ commands = <<>> /\ apk_log = <<>>)

\* A no-op request that holds a token starting with "-"
C19_Witness ==
    /\ pc = "done" /\ result = "ok"
    /\ packages_toadd = <<>> /\ packages_todel = <<>>
    /\ HasDashToken(req.packages)
    /\ HasDashToken(packages_with_depends)

\* C20: replace_aports_packages_with_path raises, returning nothing, when a
\* package found by the aports lookup has no index entry; otherwise it
\* returns a list as long as its input whose i-th element is the path
\* /mnt/pmbootstrap-packages/<arch>/<package>-<version>.apk when package i is
\* found by the aports lookup and that apk file exists, and package i itself
\* otherwise.
C20_PathsReplaceLocalPackages ==
    LET r == resolved
        Entry(p) == IF p \in DOMAIN r.idx THEN r.idx[p] ELSE None
        Path(p) == <<"/mnt/pmbootstrap-packages/", r.arch, "/">> \o p
                       \o <<"-", ToString(Entry(p).version), ".apk">>
    IN  r.called =>
        IF \E k \in 1..Len(r.packages) :
              r.packages[k] \in r.aports /\ Entry(r.packages[k]) = None
        THEN r.error # "" /\ r.ret = <<>> /\ result = r.error
        ELSE /\ r.error = ""
             /\ Len(r.ret) = Len(r.packages)
             /\ \A k \in 1..Len(r.packages) :
                   r.ret[k] = IF r.packages[k] \in r.aports /\ Path(r.packages[k]) \in r.files
                              THEN Path(r.packages[k])
                              ELSE r.packages[k]

\* One package replaced by its path, one aports package whose apk file of
\* the indexed version does not exist and is left as it is
C20_Witness ==
    /\ resolved.called /\ resolved.error = ""
    /\ Len(resolved.ret) = 2
    /\ IsPath(resolved.ret[1])
    /\ resolved.ret[2] = resolved.packages[2]
    /\ resolved.packages[2] \in resolved.aports
    /\ resolved.files # {}

====
